---------------------------- MODULE Spec2Model ----------------------------
(***************************************************************************)
(* Model of docassemble.quadralocate.objects: the LocateReport tree and    *)
(* the formatting functions that turn it into text.                        *)
(*                                                                         *)
(* Representation.  A Python str is a sequence of one-character strings,   *)
(* so that len, slicing, split, strip, lower and padding are computed as   *)
(* the code computes them.  An optional attribute that holds a str is a    *)
(* sequence of length at most one: <<>> is "unset / None", <<s>> is the    *)
(* value s.  An hour value is <<>> (None) or <<n>> with n in hundredths of *)
(* an hour (150 is 1.5); float(value) is the binary64 float nearest to it, *)
(* and the totals are floats added as Python adds them.  A time-of-day     *)
(* argument is a record tagged by kind: none, str or time.                 *)
(***************************************************************************)
EXTENDS Integers, Sequences, FiniteSets, TLC

\* ------------------------------------------------------------------ bounds
\* longest time string typed into format_time_12hr
MaxTimeLen == 4
\* utility types filled in at a time when the combined report is assembled
MaxActive == 2
\* work days of a job
MaxDays == 2
\* technicians over all the days of a job
MaxTechs == 2

\* technicians of a job whose totals are compared
MaxTotalsTechs == 3

\* --------------------------------------------------------- str primitives
CR == "\r"

Digits == <<"0","1","2","3","4","5","6","7","8","9">>

UpperCase ==
    <<"A","B","C","D","E","F","G","H","I","J","K","L","M",
      "N","O","P","Q","R","S","T","U","V","W","X","Y","Z">>

LowerCase ==
    <<"a","b","c","d","e","f","g","h","i","j","k","l","m",
      "n","o","p","q","r","s","t","u","v","w","x","y","z">>

IsDigit(c) == \E i \in 1..10 : Digits[i] = c

DigitVal(c) == (CHOOSE i \in 1..10 : Digits[i] = c) - 1

\* str.isspace() for one character
IsSpace(c) == c \in {" ", "\t", "\n", CR, "\f"}

\* str.lower() for one character
lower_char(c) ==
    IF \E i \in 1..26 : UpperCase[i] = c
    THEN LowerCase[CHOOSE i \in 1..26 : UpperCase[i] = c]
    ELSE c

\* str.upper() for one character
upper_char(c) ==
    IF \E i \in 1..26 : LowerCase[i] = c
    THEN UpperCase[CHOOSE i \in 1..26 : LowerCase[i] = c]
    ELSE c

RECURSIVE lower(_)
lower(s) == IF s = <<>> THEN <<>> ELSE <<lower_char(Head(s))>> \o lower(Tail(s))

RECURSIVE upper(_)
upper(s) == IF s = <<>> THEN <<>> ELSE <<upper_char(Head(s))>> \o upper(Tail(s))

RECURSIVE lstrip(_)
lstrip(s) == IF s # <<>> /\ IsSpace(Head(s)) THEN lstrip(Tail(s)) ELSE s

RECURSIVE rstrip(_)
rstrip(s) ==
    IF s # <<>> /\ IsSpace(s[Len(s)]) THEN rstrip(SubSeq(s, 1, Len(s) - 1)) ELSE s

\* str.strip()
strip(s) == rstrip(lstrip(s))

\* str.rstrip(c) for a single character c
RECURSIVE rstrip_char(_, _)
rstrip_char(s, c) ==
    IF s # <<>> /\ s[Len(s)] = c THEN rstrip_char(SubSeq(s, 1, Len(s) - 1), c) ELSE s

\* str.replace(c, '') for a single character c
remove_char(s, c) == SelectSeq(s, LAMBDA x : x # c)

\* sub in s
contains(s, sub) ==
    \E i \in 1..(Len(s) - Len(sub) + 1) : SubSeq(s, i, i + Len(sub) - 1) = sub

\* sep.join(items)
RECURSIVE join(_, _)
join(sep, items) ==
    IF items = <<>> THEN <<>>
    ELSE IF Len(items) = 1 THEN items[1]
    ELSE items[1] \o sep \o join(sep, Tail(items))

\* s.split(c) for a single character c: always at least one piece
RECURSIVE split(_, _)
split(s, c) ==
    IF \E i \in 1..Len(s) : s[i] = c
    THEN LET i == CHOOSE k \in 1..Len(s) : s[k] = c /\ \A j \in 1..(k - 1) : s[j] # c
         IN  <<SubSeq(s, 1, i - 1)>> \o split(SubSeq(s, i + 1, Len(s)), c)
    ELSE <<s>>

\* c * n
RECURSIVE repeat(_, _)
repeat(c, n) == IF n <= 0 THEN <<>> ELSE <<c>> \o repeat(c, n - 1)

\* str(n) for an int
RECURSIVE nat_str(_)
nat_str(n) == IF n < 10 THEN <<Digits[n + 1]>> ELSE nat_str(n \div 10) \o <<Digits[(n % 10) + 1]>>

int_str(n) == IF n < 0 THEN <<"-">> \o nat_str(0 - n) ELSE nat_str(n)

\* f"{n:02d}"
fmt_02d(n) == IF n >= 0 /\ n < 10 THEN <<"0">> \o nat_str(n) ELSE int_str(n)

\* int(s): whitespace is stripped, one sign is allowed, then digits that may
\* be separated by single underscores; anything else raises ValueError
int_body(s) == IF s # <<>> /\ Head(s) \in {"+", "-"} THEN Tail(s) ELSE s

int_parses(s) ==
    LET b == int_body(strip(s))
    IN  /\ b # <<>>
        /\ \A i \in 1..Len(b) : IsDigit(b[i]) \/ b[i] = "_"
        /\ IsDigit(b[1]) /\ IsDigit(b[Len(b)])
        /\ \A i \in 1..(Len(b) - 1) : ~(b[i] = "_" /\ b[i + 1] = "_")

RECURSIVE digits_value(_)
digits_value(b) ==
    IF b = <<>> THEN 0
    ELSE digits_value(SubSeq(b, 1, Len(b) - 1)) * 10 + DigitVal(b[Len(b)])

int_value(s) ==
    LET t == strip(s)
        v == digits_value(remove_char(int_body(t), "_"))
    IN  IF t # <<>> /\ Head(t) = "-" THEN 0 - v ELSE v

\* ------------------------------------------------------------- literals
S_am == <<" ","a","m">>
S_pm == <<" ","p","m">>
S_12colon == <<"1","2",":">>

\* the text constants of objects.py, character by character
\* HYDROVAC RECOMMENDED:<CR>
S_hydrovac_header ==
    <<"H","Y","D","R","O","V","A","C"," ","R","E","C","O","M","M","E","N","D","E","D",":",CR>>
\* Hydrovac exposure is recommended due to: 
S_hydrovac_due_to ==
    <<"H","y","d","r","o","v","a","c"," ","e","x","p","o","s","u","r","e"," ","i","s"," ","r",
      "e","c","o","m","m","e","n","d","e","d"," ","d","u","e"," ","t","o",":"," ">>
\* Hydrovac exposure is recommended.
S_hydrovac_plain ==
    <<"H","y","d","r","o","v","a","c"," ","e","x","p","o","s","u","r","e"," ","i","s"," ","r",
      "e","c","o","m","m","e","n","d","e","d",".">>
\*  documentation missing on site. It is the responsibility of the Ground Disturber, prior to ground disturbance, to obtain and review said documentation.
S_docs_missing ==
    <<" ","d","o","c","u","m","e","n","t","a","t","i","o","n"," ","m","i","s","s","i","n","g",
      " ","o","n"," ","s","i","t","e","."," ","I","t"," ","i","s"," ","t","h","e"," ","r","e",
      "s","p","o","n","s","i","b","i","l","i","t","y"," ","o","f"," ","t","h","e"," ","G","r",
      "o","u","n","d"," ","D","i","s","t","u","r","b","e","r",","," ","p","r","i","o","r"," ",
      "t","o"," ","g","r","o","u","n","d"," ","d","i","s","t","u","r","b","a","n","c","e",",",
      " ","t","o"," ","o","b","t","a","i","n"," ","a","n","d"," ","r","e","v","i","e","w"," ",
      "s","a","i","d"," ","d","o","c","u","m","e","n","t","a","t","i","o","n",".">>
\* RECOMMENDATIONS:<CR>
S_recommendations ==
    <<"R","E","C","O","M","M","E","N","D","A","T","I","O","N","S",":",CR>>
\* TRAVEL NOTES:<CR>
S_travel_notes ==
    <<"T","R","A","V","E","L"," ","N","O","T","E","S",":",CR>>
\* SITE CONDITIONS (Obstructions, inaccessible areas, changes to scope etc.):<CR>
S_site_conditions ==
    <<"S","I","T","E"," ","C","O","N","D","I","T","I","O","N","S"," ","(","O","b","s","t","r",
      "u","c","t","i","o","n","s",","," ","i","n","a","c","c","e","s","s","i","b","l","e"," ",
      "a","r","e","a","s",","," ","c","h","a","n","g","e","s"," ","t","o"," ","s","c","o","p",
      "e"," ","e","t","c",".",")",":",CR>>
\*  and 
S_and ==
    <<" ","a","n","d"," ">>
\* , and 
S_comma_and ==
    <<","," ","a","n","d"," ">>
\* , 
S_comma ==
    <<","," ">>
\* Unknown
S_Unknown ==
    <<"U","n","k","n","o","w","n">>
\*  = 
S_eq ==
    <<" ","="," ">>
\* ; 
S_semi ==
    <<";"," ">>
\* Day (
S_Day_open ==
    <<"D","a","y"," ","(">>
\* ): 
S_Day_close ==
    <<")",":"," ">>
\*  | 
S_bar ==
    <<" ","|"," ">>
\* Total: 
S_Total ==
    <<"T","o","t","a","l",":"," ">>
\* TOTALS:
S_TOTALS ==
    <<"T","O","T","A","L","S",":">>
\*   Combined: 
S_Combined ==
    <<" "," ","C","o","m","b","i","n","e","d",":"," ">>
\* TIME ON SITE
S_TIME_ON_SITE ==
    <<"T","I","M","E"," ","O","N"," ","S","I","T","E">>
\* TYPE/TIME
S_TYPE_TIME ==
    <<"T","Y","P","E","/","T","I","M","E">>
\* SUPPLEMENTAL
S_SUPPLEMENTAL ==
    <<"S","U","P","P","L","E","M","E","N","T","A","L">>
\* MATERIALS
S_MATERIALS ==
    <<"M","A","T","E","R","I","A","L","S">>
\* PROPERTY TYPE
S_PROPERTY_TYPE ==
    <<"P","R","O","P","E","R","T","Y"," ","T","Y","P","E">>
\* Private
P_Private ==
    <<"P","r","i","v","a","t","e">>
\* Public
P_Public ==
    <<"P","u","b","l","i","c">>
\* Both
P_Both ==
    <<"B","o","t","h">>
\*  x
S_x ==
    <<" ","x">>
\* Rain delay
T_Rain_delay ==
    <<"R","a","i","n"," ","d","e","l","a","y">>
\* TRAVEL NOTES:<CR>Rain delay
T_travel_result ==
    <<"T","R","A","V","E","L"," ","N","O","T","E","S",":",CR,"R","a","i","n"," ","d","e","l",
      "a","y">>
\* HYDROVAC RECOMMENDED:<CR>Hydrovac exposure is recommended.
T_hydrovac_plain_result ==
    <<"H","Y","D","R","O","V","A","C"," ","R","E","C","O","M","M","E","N","D","E","D",":",CR,
      "H","y","d","r","o","v","a","c"," ","e","x","p","o","s","u","r","e"," ","i","s"," ","r",
      "e","c","o","m","m","e","n","d","e","d",".">>

\* -------------------------------------------------------- time arguments
TNone == [kind |-> "none"]
TStr(s) == [kind |-> "str", s |-> s]
TTime(h, m) == [kind |-> "time", hour |-> h, minute |-> m]

\* clock_from_str with noon taken for a morning hour (<= for <)
clock_from_str_noon_am(hour, minute) ==
    IF hour = 0 \/ hour = 24 THEN S_12colon \o fmt_02d(minute) \o S_am
    ELSE IF hour <= 12 THEN int_str(hour) \o <<":">> \o fmt_02d(minute) \o S_am
    ELSE int_str(hour - 12) \o <<":">> \o fmt_02d(minute) \o S_pm

\* the hour/minute branching of the string path
clock_from_str(hour, minute) ==
    IF hour = 0 \/ hour = 24 THEN S_12colon \o fmt_02d(minute) \o S_am
    ELSE IF hour < 12 THEN int_str(hour) \o <<":">> \o fmt_02d(minute) \o S_am
    ELSE IF hour = 12 THEN S_12colon \o fmt_02d(minute) \o S_pm
    ELSE int_str(hour - 12) \o <<":">> \o fmt_02d(minute) \o S_pm

\* the hour/minute branching of the datetime.time path
clock_from_time(hour, minute) ==
    IF hour = 0 THEN S_12colon \o fmt_02d(minute) \o S_am
    ELSE IF hour < 12 THEN int_str(hour) \o <<":">> \o fmt_02d(minute) \o S_am
    ELSE IF hour = 12 THEN S_12colon \o fmt_02d(minute) \o S_pm
    ELSE int_str(hour - 12) \o <<":">> \o fmt_02d(minute) \o S_pm

\* the str path: time_val is rebound to its stripped, lowercased form, and
\* that rebound value is what the am/pm branch and the except branch return
format_time_str(s) ==
    LET tv    == lower(strip(s))
        parts == strip(remove_char(tv, ":"))
        hs    == IF Len(parts) <= 2 THEN parts ELSE SubSeq(parts, 1, Len(parts) - 2)
        ms    == SubSeq(parts, Len(parts) - 1, Len(parts))
    IN  IF contains(tv, <<"a","m">>) \/ contains(tv, <<"p","m">>) THEN tv
        ELSE IF Len(parts) <= 2
             THEN IF int_parses(hs) THEN clock_from_str(int_value(hs), 0) ELSE tv
             ELSE IF int_parses(hs) /\ int_parses(ms)
                  THEN clock_from_str(int_value(hs), int_value(ms))
                  ELSE tv

format_time_12hr(tv) ==
    IF tv.kind = "none" THEN <<>>
    ELSE IF tv.kind = "str"
         THEN IF tv.s = <<>> THEN <<>> ELSE format_time_str(tv.s)
         ELSE clock_from_time(tv.hour, tv.minute)

\* sample texts typed by the data-collection layer
T_Mud == <<"M","u","d">>
T_Found == <<"F","o","u","n","d">>
T_Dig_by_hand == <<"D","i","g"," ","b","y"," ","h","a","n","d">>
T_Call_first == <<"C","a","l","l"," ","f","i","r","s","t">>
T_A == <<"A">>
T_B == <<"B">>
T_40 == <<"4","0">>
T_0900 == <<"0","9","0","0">>
T_1430 == <<"1","4","3","0">>
T_1200 == <<"1","2","0","0">>

\* ----------------------------------------------------- optional values
\* getattr(obj, name, default) or default: the value of an optional str
truthy(opt) == opt # <<>> /\ opt[1] # <<>>

\* ---------------------------------------------------------- helpers
\* oxford_join without the comma before the final and
oxford_join_no_serial_comma(items) ==
    IF items = <<>> THEN <<>>
    ELSE IF Len(items) = 1 THEN items[1]
    ELSE join(S_comma, SubSeq(items, 1, Len(items) - 1)) \o S_and \o items[Len(items)]

oxford_join(items) ==
    IF items = <<>> THEN <<>>
    ELSE IF Len(items) = 1 THEN items[1]
    ELSE IF Len(items) = 2 THEN items[1] \o S_and \o items[2]
    ELSE join(S_comma, SubSeq(items, 1, Len(items) - 1)) \o S_comma_and \o items[Len(items)]

\* [f(x) for x in seq if keep(x)]
select_map(seq, keep(_), f(_)) ==
    LET kept == SelectSeq(seq, keep)
    IN  IF kept = <<>> THEN <<>> ELSE [i \in 1..Len(kept) |-> f(kept[i])]

\* ---------------------------------------------------------- UtilityType
MethodIds == <<"em", "gpr", "visual", "not_located", "not_in_area">>

method_label_map(m) ==
    CASE m = "em" -> <<"L","o","c","a","t","e","d"," ","w","i","t","h"," ","E","M">>
      [] m = "gpr" -> <<"L","o","c","a","t","e","d"," ","w","i","t","h"," ","G","P","R">>
      [] m = "visual" -> <<"L","o","c","a","t","e","d"," ","v","i","s","u","a","l","l","y">>
      [] m = "not_located" -> <<"N","o","t"," ","l","o","c","a","t","e","d">>
      [] m = "not_in_area" -> <<"N","o","t"," ","i","n"," ","p","r","o","p","o","s","e","d"," ","w","o","r","k"," ","a","r","e","a">>

\* has_any_method looping over every method id instead of available_methods
has_any_method_every_id(u) == \E i \in 1..Len(MethodIds) : MethodIds[i] \in u.methods

UtilityType_has_any_method(u) ==
    \E i \in 1..Len(u.available_methods) : u.available_methods[i] \in u.methods

UtilityType_should_display(u) ==
    UtilityType_has_any_method(u) \/ truthy(u.summary)

UtilityType_get_method_labels(u) ==
    select_map(u.available_methods, LAMBDA m : m \in u.methods, method_label_map)

UtilityType_format_header(u) ==
    LET labels == UtilityType_get_method_labels(u)
    IN  upper(u.display_name)
        \o (IF labels # <<>> THEN <<" ", "(">> \o join(S_comma, labels) \o <<")">> ELSE <<>>)

UtilityType_format_section(u) ==
    IF ~UtilityType_should_display(u) THEN <<>>
    ELSE LET header  == UtilityType_format_header(u)
             summary == IF truthy(u.summary) THEN u.summary[1] ELSE <<>>
         IN  IF summary # <<>> THEN header \o <<":", CR>> \o summary ELSE header \o <<":">>

\* -------------------------------------------------------- UtilityMatrix
UTILITY_TYPES ==
    << [key |-> "electrical",     display_name |-> <<"E","l","e","c","t","r","i","c","a","l">>,     available_methods |-> MethodIds],
       [key |-> "communications", display_name |-> <<"C","o","m","m","u","n","i","c","a","t","i","o","n","s">>, available_methods |-> MethodIds],
       [key |-> "gas",            display_name |-> <<"G","a","s"," ","/"," ","P","i","p","e","l","i","n","e">>,            available_methods |-> MethodIds],
       [key |-> "water",          display_name |-> <<"W","a","t","e","r">>,          available_methods |-> MethodIds],
       [key |-> "storm",          display_name |-> <<"S","t","o","r","m">>,          available_methods |-> MethodIds],
       [key |-> "sanitary",       display_name |-> <<"S","a","n","i","t","a","r","y">>,       available_methods |-> MethodIds],
       [key |-> "ditch",          display_name |-> <<"D","i","t","c","h">>,          available_methods |-> <<"visual", "not_located">>],
       [key |-> "unknown",        display_name |-> <<"U","n","k","n","o","w","n"," ","/"," ","O","t","h","e","r">>,        available_methods |-> MethodIds] >>

UtilityKeys == {UTILITY_TYPES[i].key : i \in 1..Len(UTILITY_TYPES)}

\* The state of a UtilityType is what the caller fills in: methods, the set of
\* method ids mapped to True in the methods dict (empty after init), and the
\* optional summary.  key, display_name and available_methods are set once by
\* UtilityMatrix.init from UTILITY_TYPES and never change.
UtilityType_init == [methods |-> {}, summary |-> <<>>]

UtilityMatrix_init == [k \in UtilityKeys |-> UtilityType_init]

\* getattr(self, key): the UtilityType object with all its attributes
utility_of(um, t) ==
    [key |-> t.key, display_name |-> t.display_name,
     available_methods |-> t.available_methods,
     methods |-> um[t.key].methods, summary |-> um[t.key].summary]

utility(um, k) ==
    utility_of(um, UTILITY_TYPES[CHOOSE i \in 1..Len(UTILITY_TYPES) : UTILITY_TYPES[i].key = k])

UtilityMatrix_get_active_utilities(um) ==
    select_map(UTILITY_TYPES,
               LAMBDA t : UtilityType_should_display(utility_of(um, t)),
               LAMBDA t : utility_of(um, t))

\* ------------------------------------------------ HydrovacRecommendation
STANDARD_REASONS ==
    << [key |-> "obstructions",     text |-> <<"O","b","s","t","r","u","c","t","i","o","n","s"," ","i","n"," ","s","c","a","n"," ","a","r","e","a">>],
       [key |-> "unlocated",        text |-> <<"U","n","l","o","c","a","t","e","d"," ","u","t","i","l","i","t","i","e","s"," ","i","n"," ","a","r","e","a">>],
       [key |-> "deep_utilities",   text |-> <<"P","o","s","s","i","b","l","e"," ","u","t","i","l","i","t","i","e","s"," ","i","n"," ","a","r","e","a"," ","d","e","e","p","e","r"," ","t","h","a","n"," ","t","h","e"," ","s","c","a","n"," ","c","a","p","a","b","i","l","i","t","i","e","s"," ","d","u","e"," ","t","o"," ","g","e","o","p","h","y","s","i","c","a","l"," ","s","u","b","s","u","r","f","a","c","e"," ","c","o","n","d","i","t","i","o","n","s">>],
       [key |-> "no_documentation", text |-> <<"N","o"," ","B","C"," ","O","n","e"," ","C","a","l","l","/","S","i","t","e"," ","P","l","a","n","s","/","A","s","-","B","u","i","l","t","s"," ","f","o","r"," ","t","h","e"," ","a","r","e","a">>] >>

ReasonKeys == {STANDARD_REASONS[i].key : i \in 1..Len(STANDARD_REASONS)}

\* reasons is the set of reason keys mapped to True in the reasons dict
HydrovacRecommendation_init ==
    [reasons |-> {}, recommended |-> FALSE, custom_notes |-> << <<>> >>]

HydrovacRecommendation_get_selected_reasons(h) ==
    select_map(STANDARD_REASONS, LAMBDA r : r.key \in h.reasons, LAMBDA r : lower(r.text))

HydrovacRecommendation_format_section(h) ==
    IF ~h.recommended THEN <<>>
    ELSE LET selected == HydrovacRecommendation_get_selected_reasons(h)
         IN  S_hydrovac_header
             \o (IF selected # <<>>
                 THEN S_hydrovac_due_to \o oxford_join(selected) \o <<".">>
                 ELSE S_hydrovac_plain)
             \o (IF truthy(h.custom_notes) THEN <<CR>> \o h.custom_notes[1] ELSE <<>>)

\* ------------------------------------------------- Python float (binary64)
\* A float is its sign and its magnitude as an exact integer count of units
\* 2^-FractionBits, written in limbs of 16 bits, least significant first.
\* Every binary64 value below 2^20 that is a multiple of 2^-60 is such a
\* count: hour values from 0.01 up are, and so are their sums and differences.
FractionBits == 60

\* significand width of binary64
Precision == 53

Limb == 2^16

mag_zero == <<0, 0, 0, 0, 0>>

float_zero == [neg |-> FALSE, mag |-> mag_zero]

RECURSIVE mag_add_from(_, _, _, _)
mag_add_from(a, b, i, carry) ==
    IF i > Len(a) THEN <<>>
    ELSE LET s == a[i] + b[i] + carry
         IN  <<s % Limb>> \o mag_add_from(a, b, i + 1, s \div Limb)

mag_add(a, b) == mag_add_from(a, b, 1, 0)

\* a - b for a >= b
RECURSIVE mag_sub_from(_, _, _, _)
mag_sub_from(a, b, i, borrow) ==
    IF i > Len(a) THEN <<>>
    ELSE LET d == a[i] - b[i] - borrow
         IN  <<IF d < 0 THEN d + Limb ELSE d>>
             \o mag_sub_from(a, b, i + 1, IF d < 0 THEN 1 ELSE 0)

mag_sub(a, b) == mag_sub_from(a, b, 1, 0)

mag_less(a, b) ==
    \E i \in 1..Len(a) : a[i] < b[i] /\ \A j \in (i + 1)..Len(a) : a[j] = b[j]

\* a * k for a small k
RECURSIVE mag_times_from(_, _, _, _)
mag_times_from(a, k, i, carry) ==
    IF i > Len(a) THEN <<>>
    ELSE LET p == a[i] * k + carry
         IN  <<p % Limb>> \o mag_times_from(a, k, i + 1, p \div Limb)

mag_times(a, k) == mag_times_from(a, k, 1, 0)

\* the remainder of (limbs i.. of a) divided by a small d
RECURSIVE mag_rem_from(_, _, _)
mag_rem_from(a, d, i) ==
    IF i > Len(a) THEN 0 ELSE (mag_rem_from(a, d, i + 1) * Limb + a[i]) % d

\* floor(a / d) for a small d
mag_div(a, d) ==
    [i \in 1..Len(a) |-> (mag_rem_from(a, d, i + 1) * Limb + a[i]) \div d]

\* 2^q
mag_pow2(q) == [i \in 1..Len(mag_zero) |-> IF i = (q \div 16) + 1 THEN 2^(q % 16) ELSE 0]

\* the number of bits of a
bit_length(a) ==
    IF a = mag_zero THEN 0
    ELSE LET t == CHOOSE i \in 1..Len(a) : a[i] # 0 /\ \A j \in (i + 1)..Len(a) : a[j] = 0
         IN  16 * (t - 1) + (CHOOSE b \in 1..16 : 2^(b - 1) <= a[t] /\ a[t] < 2^b)

\* a rounded to a multiple of 2^q, to nearest, ties to even; inexact says
\* that a itself is the floor of a value that is a little larger
round_at(a, q, inexact) ==
    IF q = 0 THEN a
    ELSE LET w    == q \div 16
             low  == [i \in 1..Len(a) |->
                        IF i <= w THEN a[i] ELSE IF i = w + 1 THEN a[i] % 2^(q % 16) ELSE 0]
             kept == mag_sub(a, low)
             half == mag_pow2(q - 1)
             odd  == (a[w + 1] \div 2^(q % 16)) % 2 = 1
         IN  IF mag_less(half, low) \/ (low = half /\ (inexact \/ odd))
             THEN mag_add(kept, mag_pow2(q))
             ELSE kept

\* a rounded to Precision significant bits
round_significand(a, inexact) ==
    IF bit_length(a) <= Precision THEN a
    ELSE round_at(a, bit_length(a) - Precision, inexact)

\* x + y on floats
float_add(x, y) ==
    IF x.neg = y.neg
    THEN [neg |-> x.neg, mag |-> round_significand(mag_add(x.mag, y.mag), FALSE)]
    ELSE IF x.mag = y.mag THEN float_zero
    ELSE IF mag_less(x.mag, y.mag)
         THEN [neg |-> y.neg, mag |-> round_significand(mag_sub(y.mag, x.mag), FALSE)]
         ELSE [neg |-> x.neg, mag |-> round_significand(mag_sub(x.mag, y.mag), FALSE)]

\* x > 0
float_positive(x) == ~x.neg /\ x.mag # mag_zero

\* float(v) for a number v given in hundredths: the float nearest to v / 100
float_of(v) ==
    LET a   == IF v < 0 THEN 0 - v ELSE v
        top == a * 2^(FractionBits - 48)
        num == <<0, 0, 0, top % Limb, top \div Limb>>
    IN  [neg |-> v < 0,
         mag |-> round_significand(mag_div(num, 100), mag_rem_from(num, 100, 1) # 0)]

\* the integer that a whole multiple r of 2^FractionBits units stands for
mag_whole(r) == r[4] \div 2^(FractionBits - 48) + r[5] * 2^(64 - FractionBits)

\* round(x * 100): the product rounded as a float, then to the nearest
\* integer, ties to even
round_times_100(x) ==
    (IF x.neg THEN 0 - 1 ELSE 1)
    * mag_whole(round_at(round_significand(mag_times(x.mag, 100), FALSE), FractionBits, FALSE))

\* ------------------------------------------------------------ Technician
HOUR_TYPES == <<"em", "gpr", "travel", "survey", "concrete_gpr", "standby">>

HourTypeSet == {HOUR_TYPES[i] : i \in 1..Len(HOUR_TYPES)}

HOUR_LABELS(ht) ==
    CASE ht = "em" -> <<"E","M">>
      [] ht = "gpr" -> <<"G","P","R">>
      [] ht = "travel" -> <<"T","r","a","v","e","l">>
      [] ht = "survey" -> <<"S","u","r","v","e","y">>
      [] ht = "concrete_gpr" -> <<"C","o","n","c","."," ","G","P","R">>
      [] ht = "standby" -> <<"S","t","a","n","d","b","y">>

\* {ht: 0 for ht in HOUR_TYPES}
zero_hours == [ht \in HourTypeSet |-> float_zero]

\* Technician() after init: no name, every hour type 0
Technician_init == [name |-> <<>>, hours |-> [ht \in HourTypeSet |-> <<0>>]]

\* float(v or 0)
float_or_0(v) == IF v = <<>> THEN float_zero ELSE float_of(v[1])

\* "%.2f" of h / 100 for an integer h
fmt_2f(h) ==
    LET a == IF h < 0 THEN 0 - h ELSE h
    IN  (IF h < 0 THEN <<"-">> ELSE <<>>) \o nat_str(a \div 100) \o <<".">>
        \o <<Digits[((a % 100) \div 10) + 1], Digits[(a % 10) + 1]>>

\* format_number: "%.2f" of round(n * 100) / 100, then rstrip('0'), then
\* rstrip('.')
format_number(n) ==
    IF n.mag = mag_zero THEN <<"0">>
    ELSE rstrip_char(rstrip_char(fmt_2f(round_times_100(n)), "0"), ".")

\* has_any_hours from hour type i on: "True", "False", or "TypeError" when
\* the comparison  None > 0  is reached before any positive value
RECURSIVE has_any_hours_from(_, _)
has_any_hours_from(tech, i) ==
    IF i > Len(HOUR_TYPES) THEN "False"
    ELSE LET v == tech.hours[HOUR_TYPES[i]]
         IN  IF v = <<>> THEN "TypeError"
             ELSE IF v[1] > 0 THEN "True"
             ELSE has_any_hours_from(tech, i + 1)

Technician_has_any_hours(tech) == has_any_hours_from(tech, 1)

\* total after the loop has gone from hour type i on
RECURSIVE sum_hours_from(_, _, _)
sum_hours_from(tech, i, total) ==
    IF i > Len(HOUR_TYPES) THEN total
    ELSE sum_hours_from(tech, i + 1, float_add(total, float_or_0(tech.hours[HOUR_TYPES[i]])))

Technician_get_total_hours(tech) == sum_hours_from(tech, 1, float_zero)

Technician_format_hours_line(tech) ==
    join(S_semi,
         select_map(HOUR_TYPES,
                    LAMBDA ht : tech.hours[ht] # <<>> /\ tech.hours[ht][1] # 0
                                /\ float_positive(float_of(tech.hours[ht][1])),
                    LAMBDA ht : HOUR_LABELS(ht) \o S_eq
                                \o format_number(float_of(tech.hours[ht][1]))))

\* getattr(tech, 'name', 'Unknown')
tech_name(tech) == IF tech.name = <<>> THEN S_Unknown ELSE tech.name[1]

Technician_format_tech_line(tech) ==
    LET hours_str == Technician_format_hours_line(tech)
    IN  IF hours_str # <<>> THEN tech_name(tech) \o <<":", " ">> \o hours_str
        ELSE tech_name(tech)

\* ---------------------------------------------------- format_totals_line
format_totals_line(totals) ==
    join(S_semi,
         select_map(HOUR_TYPES,
                    LAMBDA key : float_positive(totals[key]),
                    LAMBDA key : HOUR_LABELS(key) \o S_eq \o format_number(totals[key])))

\* --------------------------------------------------------------- WorkDay
\* WorkDay() after init: no date, no times, no technicians
WorkDay_init == [date |-> <<>>, start_time |-> TNone, end_time |-> TNone, technicians |-> <<>>]

WorkDay_format_time_range(day) ==
    LET start == format_time_12hr(day.start_time)
        end   == format_time_12hr(day.end_time)
    IN  IF start # <<>> /\ end # <<>> THEN start \o <<" ","t","o"," ">> \o end
        ELSE IF start # <<>> THEN <<"f","r","o","m"," ">> \o start
        ELSE IF end # <<>> THEN <<"t","o"," ">> \o end
        ELSE <<>>

\* totals[ht] after the loop has gone over techs
RECURSIVE sum_type_over(_, _, _)
sum_type_over(techs, ht, total) ==
    IF techs = <<>> THEN total
    ELSE sum_type_over(Tail(techs), ht, float_add(total, float_or_0(Head(techs).hours[ht])))

WorkDay_get_all_hours_by_type(day) ==
    [ht \in HourTypeSet |-> sum_type_over(day.technicians, ht, float_zero)]

\* docassemble's format_date(date, format='short'); a date is a day number
format_date(d) == <<"1", "/">> \o int_str(d)

\* format_date(day.date, format='short') if hasattr(day, 'date') else 'Unknown'
date_str(day) == IF day.date = <<>> THEN S_Unknown ELSE format_date(day.date[1])

\* ----------------------------------------------------------- MultiDayJob
MultiDayJob_init == [work_days |-> <<>>, is_multi_day |-> FALSE]

\* tech_dict with a fresh entry for every technician, same name or not
tech_dict_add_unmerged(tech_dict, tech) ==
    Append(tech_dict,
           [name |-> tech_name(tech),
            hours |-> [ht \in HourTypeSet |-> float_add(float_zero, float_or_0(tech.hours[ht]))]])

\* tech_dict where a name seen again keeps only the latest technician's hours
tech_dict_add_overwriting(tech_dict, tech) ==
    LET name  == tech_name(tech)
        entry == [name |-> name,
                  hours |-> [ht \in HourTypeSet |-> float_add(float_zero, float_or_0(tech.hours[ht]))]]
    IN  IF \E i \in 1..Len(tech_dict) : tech_dict[i].name = name
        THEN [i \in 1..Len(tech_dict) |-> IF tech_dict[i].name = name THEN entry ELSE tech_dict[i]]
        ELSE Append(tech_dict, entry)

\* tech_dict after one more technician: a dict keeps its keys in insertion order
tech_dict_add(tech_dict, tech) ==
    LET name == tech_name(tech)
        add(h) == [ht \in HourTypeSet |-> float_add(h[ht], float_or_0(tech.hours[ht]))]
    IN  IF \E i \in 1..Len(tech_dict) : tech_dict[i].name = name
        THEN [i \in 1..Len(tech_dict) |->
                IF tech_dict[i].name = name
                THEN [name |-> name, hours |-> add(tech_dict[i].hours)]
                ELSE tech_dict[i]]
        ELSE Append(tech_dict, [name |-> name, hours |-> add(zero_hours)])

RECURSIVE tech_dict_fold(_, _)
tech_dict_fold(tech_dict, techs) ==
    IF techs = <<>> THEN tech_dict
    ELSE tech_dict_fold(tech_dict_add(tech_dict, Head(techs)), Tail(techs))

\* every technician of every day, in the order of the nested loops
RECURSIVE all_technicians(_)
all_technicians(work_days) ==
    IF work_days = <<>> THEN <<>>
    ELSE Head(work_days).technicians \o all_technicians(Tail(work_days))

MultiDayJob_get_all_technicians(job) ==
    tech_dict_fold(<<>>, all_technicians(job.work_days))

\* totals[ht] after the loop has gone over work_days
RECURSIVE sum_day_totals(_, _, _)
sum_day_totals(work_days, ht, total) ==
    IF work_days = <<>> THEN total
    ELSE sum_day_totals(Tail(work_days), ht,
                        float_add(total, WorkDay_get_all_hours_by_type(Head(work_days))[ht]))

MultiDayJob_get_combined_totals(job) ==
    [ht \in HourTypeSet |-> sum_day_totals(job.work_days, ht, float_zero)]

\* the path chosen by the number of days alone
single_day_path_by_count(job) == Len(job.work_days) <= 1

\* not self.is_multi_day or len(self.work_days) <= 1
single_day_path(job) == ~job.is_multi_day \/ Len(job.work_days) <= 1

MultiDayJob_format_time_on_site(job) ==
    IF single_day_path(job)
    THEN IF job.work_days # <<>> THEN WorkDay_format_time_range(job.work_days[1]) ELSE <<>>
    ELSE join(<<CR>>,
              [i \in 1..Len(job.work_days) |->
                  S_Day_open \o date_str(job.work_days[i]) \o S_Day_close
                  \o WorkDay_format_time_range(job.work_days[i])])

\* the technicians whose has_any_hours() format_type_time evaluates
type_time_technicians(job) ==
    IF single_day_path(job)
    THEN IF job.work_days # <<>> THEN job.work_days[1].technicians ELSE <<>>
    ELSE all_technicians(job.work_days)

\* format_type_time ends in TypeError exactly when one of those calls does
MultiDayJob_format_type_time_raises(job) ==
    \E i \in 1..Len(type_time_technicians(job)) :
        Technician_has_any_hours(type_time_technicians(job)[i]) = "TypeError"

tech_lines(techs) ==
    select_map(techs, LAMBDA t : Technician_has_any_hours(t) = "True",
               Technician_format_tech_line)

\* the single-day branch of format_type_time: its list of lines
type_time_single(job) ==
    IF job.work_days = <<>> THEN <<>>
    ELSE LET day         == job.work_days[1]
             lines       == tech_lines(day.technicians)
             totals_line == format_totals_line(WorkDay_get_all_hours_by_type(day))
         IN  lines \o (IF Len(lines) >= 2 /\ totals_line # <<>>
                       THEN <<S_Total \o totals_line>> ELSE <<>>)

\* the multi-day branch: the per-day lines
day_lines(work_days) ==
    select_map(work_days,
               LAMBDA day : tech_lines(day.technicians) # <<>>,
               LAMBDA day : S_Day_open \o date_str(day) \o S_Day_close
                            \o join(S_bar, tech_lines(day.technicians)))

\* the multi-day branch: the combined totals block
totals_block(job) ==
    LET all_techs     == MultiDayJob_get_all_technicians(job)
        combined_line == format_totals_line(MultiDayJob_get_combined_totals(job))
    IN  IF all_techs = <<>> THEN <<>>
        ELSE << <<>>, S_TOTALS >>
             \o select_map(all_techs,
                           LAMBDA e : format_totals_line(e.hours) # <<>>,
                           LAMBDA e : <<" ", " ">> \o e.name \o <<":", " ">>
                                      \o format_totals_line(e.hours))
             \o (IF combined_line # <<>> THEN <<S_Combined \o combined_line>> ELSE <<>>)

type_time_lines(job) ==
    IF single_day_path(job) THEN type_time_single(job)
    ELSE day_lines(job.work_days) \o totals_block(job)

\* the value format_type_time returns when it does not raise
MultiDayJob_format_type_time(job) == join(<<CR>>, type_time_lines(job))

\* ------------------------------------------ LocateReport: billing details
HEADER_WIDTH == 18

make_line(header, content) ==
    IF content = <<>> THEN <<>>
    ELSE LET s == header \o <<":">>
         IN  s \o repeat(" ", HEADER_WIDTH - Len(s)) \o content

make_continuation_line(content) ==
    IF content = <<>> THEN <<>> ELSE repeat(" ", HEADER_WIDTH) \o content

supp_fields ==
    << [key |-> "parking",         label |-> <<"P","a","r","k","i","n","g">>],
       [key |-> "traffic_control", label |-> <<"T","r","a","f","f","i","c"," ","c","o","n","t","r","o","l">>],
       [key |-> "permits",         label |-> <<"P","e","r","m","i","t","t","i","n","g">>],
       [key |-> "desktop",         label |-> <<"D","e","s","k","t","o","p"," ","r","e","v","i","e","w">>],
       [key |-> "cad",             label |-> <<"A","u","t","o","C","A","D">>],
       [key |-> "coring",          label |-> <<"C","o","r","i","n","g">>],
       [key |-> "vapour_probes",   label |-> <<"V","a","p","o","u","r"," ","p","r","o","b","e","s">>],
       [key |-> "camera",          label |-> <<"C","a","m","e","r","a"," ","i","n","s","p","e","c","t","i","o","n">>],
       [key |-> "data_processing", label |-> <<"D","a","t","a"," ","p","r","o","c","e","s","s","i","n","g">>],
       [key |-> "orientation",     label |-> <<"O","r","i","e","n","t","a","t","i","o","n"," ","T","i","m","e">>],
       [key |-> "sketch",          label |-> <<"R","e","p","o","r","t"," ","D","r","a","f","t","i","n","g">>],
       [key |-> "kms",             label |-> <<"K","i","l","o","m","e","t","r","e","s">>],
       [key |-> "loa",             label |-> <<"L","O","A">>] >>

SuppKeys == {supp_fields[i].key : i \in 1..Len(supp_fields)}

mat_fields ==
    << [key |-> "pin_flags", label |-> <<"P","i","n"," ","f","l","a","g","s">>],
       [key |-> "lathe_24",  label |-> <<"L","a","t","h","e"," ","2","4","\"">>],
       [key |-> "lathe_48",  label |-> <<"L","a","t","h","e"," ","4","8","\"">>] >>

MatKeys == {mat_fields[i].key : i \in 1..Len(mat_fields)}

\* getattr(self, 'supp_<key>', None) is truthy: the attribute is set and not ''
has_value(attrs, key) == key \in DOMAIN attrs /\ attrs[key] # <<>>

LocateReport_format_supplemental(r) ==
    join(S_semi,
         select_map(supp_fields, LAMBDA f : has_value(r.supp, f.key),
                    LAMBDA f : f.label \o S_eq \o r.supp[f.key]))

LocateReport_format_materials(r) ==
    join(S_semi,
         select_map(mat_fields, LAMBDA f : has_value(r.mat, f.key),
                    LAMBDA f : f.label \o S_x \o r.mat[f.key]))

LocateReport_format_property_type(r) ==
    IF r.property_type = <<P_Private>>
    THEN <<"P","r","i","v","a","t","e"," ","p","r","o","p","e","r","t","y">>
    ELSE IF r.property_type = <<P_Public>>
    THEN <<"P","u","b","l","i","c"," ","p","r","o","p","e","r","t","y">>
    ELSE IF r.property_type = <<P_Both>>
    THEN <<"P","u","b","l","i","c"," ","a","n","d"," ","p","r","i","v","a","t","e"," ",
           "p","r","o","p","e","r","t","y">>
    ELSE <<>>

\* the lines appended for TYPE/TIME: the header line, then continuation lines
type_time_section(type_time) ==
    IF type_time = <<>> THEN <<>>
    ELSE LET type_time_lines_ == split(type_time, CR)
         IN  <<make_line(S_TYPE_TIME, type_time_lines_[1])>>
             \o [i \in 1..(Len(type_time_lines_) - 1) |->
                    make_continuation_line(type_time_lines_[i + 1])]

\* the lines list of format_billing_details, in the order of its appends
billing_lines(r) ==
    LET time_on_site == MultiDayJob_format_time_on_site(r.job)
        type_time    == MultiDayJob_format_type_time(r.job)
        supp_items   == LocateReport_format_supplemental(r)
        mat_items    == LocateReport_format_materials(r)
        prop_type    == LocateReport_format_property_type(r)
    IN  (IF time_on_site # <<>> THEN <<make_line(S_TIME_ON_SITE, time_on_site)>> ELSE <<>>)
        \o type_time_section(type_time)
        \o (IF supp_items # <<>> THEN <<make_line(S_SUPPLEMENTAL, supp_items)>> ELSE <<>>)
        \o (IF mat_items # <<>> THEN <<make_line(S_MATERIALS, mat_items)>> ELSE <<>>)
        \o (IF prop_type # <<>> THEN <<make_line(S_PROPERTY_TYPE, prop_type)>> ELSE <<>>)

LocateReport_format_billing_details_raises(r) == MultiDayJob_format_type_time_raises(r.job)

\* the value format_billing_details returns when it does not raise
LocateReport_format_billing_details(r) == join(<<CR>>, billing_lines(r))

\* ----------------------------------------- LocateReport: combined report
doc_labels ==
    << [key |-> "hydro",     label |-> <<"B","C"," ","H","y","d","r","o">>],
       [key |-> "comm",      label |-> <<"C","o","m","m","u","n","i","c","a","t","i","o","n","s">>],
       [key |-> "gas",       label |-> <<"F","o","r","t","i","s">>],
       [key |-> "municipal", label |-> <<"M","u","n","i","c","i","p","a","l">>],
       [key |-> "pipeline",  label |-> <<"P","i","p","e","l","i","n","e">>],
       [key |-> "asbuilts",  label |-> <<"A","s","-","b","u","i","l","t","s">>] >>

DocKeys == {doc_labels[i].key : i \in 1..Len(doc_labels)}

LocateReport_format_missing_docs_sentence(r) ==
    LET missing == select_map(doc_labels, LAMBDA d : d.key \in r.missing_docs, LAMBDA d : d.label)
    IN  IF missing = <<>> THEN <<>> ELSE oxford_join(missing) \o S_docs_missing

LocateReport_format_recommendations(r) ==
    LET reco0   == IF truthy(r.recommendations) THEN r.recommendations[1] ELSE <<>>
        missing == LocateReport_format_missing_docs_sentence(r)
        reco    == IF missing # <<>>
                   THEN IF reco0 # <<>> THEN reco0 \o <<CR, CR>> \o missing ELSE missing
                   ELSE reco0
    IN  IF reco # <<>> THEN S_recommendations \o reco ELSE <<>>

\* format_combined_report appending every section, empty or not
combined_sections_keep_empty(r) ==
    << IF truthy(r.travel_notes) THEN S_travel_notes \o r.travel_notes[1] ELSE <<>>,
       IF truthy(r.site_conditions) THEN S_site_conditions \o r.site_conditions[1] ELSE <<>> >>
    \o select_map(UtilityMatrix_get_active_utilities(r.utilities),
                  LAMBDA u : TRUE, UtilityType_format_section)
    \o << HydrovacRecommendation_format_section(r.hydrovac),
          LocateReport_format_recommendations(r) >>

\* the sections list of format_combined_report, in the order of its appends
combined_sections(r) ==
    (IF truthy(r.travel_notes) THEN <<S_travel_notes \o r.travel_notes[1]>> ELSE <<>>)
    \o (IF truthy(r.site_conditions) THEN <<S_site_conditions \o r.site_conditions[1]>> ELSE <<>>)
    \o select_map(UtilityMatrix_get_active_utilities(r.utilities),
                  LAMBDA u : UtilityType_format_section(u) # <<>>,
                  UtilityType_format_section)
    \o (IF HydrovacRecommendation_format_section(r.hydrovac) # <<>>
        THEN <<HydrovacRecommendation_format_section(r.hydrovac)>> ELSE <<>>)
    \o (IF LocateReport_format_recommendations(r) # <<>>
        THEN <<LocateReport_format_recommendations(r)>> ELSE <<>>)

LocateReport_format_combined_report(r) == join(<<CR, CR>>, combined_sections(r))

\* ------------------------------------------------------------------ state
VARIABLES
    time_val,   \* the argument of a direct call of format_time_12hr
    report,     \* the LocateReport tree
    call        \* the last formatting call: its operation, argument, outcome and value

vars == <<time_val, report, call>>

NoCall == [op |-> "none", arg |-> <<>>, outcome |-> "none"]
Returned(op, arg, v) == [op |-> op, arg |-> arg, outcome |-> "returned", value |-> v]
Raised(op, arg) == [op |-> op, arg |-> arg, outcome |-> "raised"]

\* LocateReport() after init; the optional scalar attributes are unset.
\* missing_docs is the set of document keys mapped to True; supp and mat map
\* the supp_<key> and mat_<key> attributes that are set to their text.
LocateReport_init ==
    [utilities       |-> UtilityMatrix_init,
     job             |-> MultiDayJob_init,
     hydrovac        |-> HydrovacRecommendation_init,
     missing_docs    |-> {},
     travel_notes    |-> <<>>,
     site_conditions |-> <<>>,
     recommendations |-> <<>>,
     property_type   |-> <<>>,
     supp            |-> <<>>,
     mat             |-> <<>>]

Init ==
    /\ time_val = TNone
    /\ report = LocateReport_init
    /\ call = NoCall

\* The data-collection layer fills the tree before any formatting call.
Filling == call.op = "none"

\* ------------------------------------------- what a call leaves of the tree
\* get_all_hours_by_type accumulating into the first technician's hours dict
WorkDay_after_accumulating_in_place(day) ==
    IF day.technicians = <<>> THEN day
    ELSE [day EXCEPT !.technicians[1].hours =
             [ht \in HourTypeSet |->
                 <<round_times_100(float_add(float_or_0(@[ht]),
                                             WorkDay_get_all_hours_by_type(day)[ht]))>>]]

\* get_all_hours_by_type accumulates into a fresh dict: the day is untouched
WorkDay_after_get_all_hours_by_type(day) == day

\* get_all_technicians accumulates into fresh dicts: the job is untouched
MultiDayJob_after_get_all_technicians(job) == job

\* get_combined_totals calls get_all_hours_by_type on every day
MultiDayJob_after_get_combined_totals(job) ==
    IF job.work_days = <<>> THEN job
    ELSE [job EXCEPT !.work_days =
            [i \in 1..Len(job.work_days) |->
                WorkDay_after_get_all_hours_by_type(job.work_days[i])]]

\* format_type_time: the single-day branch calls get_all_hours_by_type on the
\* first day when two technicians have hours; the multi-day branch calls
\* get_all_technicians and, if it found any, get_combined_totals
MultiDayJob_after_format_type_time(job) ==
    IF MultiDayJob_format_type_time_raises(job) THEN job
    ELSE IF single_day_path(job)
         THEN IF job.work_days # <<>> /\ Len(tech_lines(job.work_days[1].technicians)) >= 2
              THEN [job EXCEPT !.work_days[1] = WorkDay_after_get_all_hours_by_type(@)]
              ELSE job
         ELSE LET j == MultiDayJob_after_get_all_technicians(job)
              IN  IF MultiDayJob_get_all_technicians(job) # <<>>
                  THEN MultiDayJob_after_get_combined_totals(j)
                  ELSE j

\* ----------------------------------------- format_time_12hr on its own
TimeAlphabet == {"0", "1", "2", "3", "4", "9", ":", " ", "P", "m"}
TimeObjects == {TTime(0, 0), TTime(9, 5), TTime(12, 0), TTime(14, 30), TTime(23, 59)}

SetTimeEmpty ==
    /\ Filling /\ time_val.kind = "none"
    /\ time_val' = TStr(<<>>)
    /\ UNCHANGED <<report, call>>

SetTimeObject ==
    /\ Filling /\ time_val.kind = "none"
    /\ \E t \in TimeObjects : time_val' = t
    /\ UNCHANGED <<report, call>>

TypeTimeChar ==
    /\ Filling /\ time_val.kind \in {"none", "str"}
    /\ \E c \in TimeAlphabet :
         LET cur == IF time_val.kind = "str" THEN time_val.s ELSE <<>>
         IN  /\ Len(cur) < MaxTimeLen
             /\ time_val' = TStr(Append(cur, c))
    /\ UNCHANGED <<report, call>>

Call_format_time_12hr ==
    /\ call' = Returned("format_time_12hr", <<>>, format_time_12hr(time_val))
    /\ UNCHANGED <<time_val, report>>

NextTime == SetTimeEmpty \/ SetTimeObject \/ TypeTimeChar \/ Call_format_time_12hr

SpecTime == Init /\ [][NextTime]_vars

\* ------------------------------------------------- filling the utilities
SummaryValues == {<<>>, << <<>> >>, <<T_Found>>}

TouchedUtilities(um) == {k \in UtilityKeys : um[k] # UtilityMatrix_init[k]}

\* utilities.<key>.methods[m] = b, with at most n utility types filled in
SetUtilityMethod(M, n) ==
    /\ Filling
    /\ \E k \in UtilityKeys, m \in M, b \in BOOLEAN :
         LET um == [report.utilities EXCEPT
                       ![k].methods = IF b THEN @ \cup {m} ELSE @ \ {m}]
         IN  /\ Cardinality(TouchedUtilities(um)) <= n
             /\ report' = [report EXCEPT !.utilities = um]
    /\ UNCHANGED <<time_val, call>>

\* utilities.<key>.summary = v, with at most n utility types filled in
SetUtilitySummary(V, n) ==
    /\ Filling
    /\ \E k \in UtilityKeys, v \in V :
         LET um == [report.utilities EXCEPT ![k].summary = v]
         IN  /\ Cardinality(TouchedUtilities(um)) <= n
             /\ report' = [report EXCEPT !.utilities = um]
    /\ UNCHANGED <<time_val, call>>

Call_has_any_method ==
    /\ \E k \in UtilityKeys :
         call' = Returned("has_any_method", <<k>>, UtilityType_has_any_method(utility(report.utilities, k)))
    /\ UNCHANGED <<time_val, report>>

Call_should_display ==
    /\ \E k \in UtilityKeys :
         call' = Returned("should_display", <<k>>, UtilityType_should_display(utility(report.utilities, k)))
    /\ UNCHANGED <<time_val, report>>

Call_format_header ==
    /\ \E k \in UtilityKeys :
         call' = Returned("format_header", <<k>>, UtilityType_format_header(utility(report.utilities, k)))
    /\ UNCHANGED <<time_val, report>>

Call_UtilityType_format_section ==
    /\ \E k \in UtilityKeys :
         call' = Returned("UtilityType.format_section", <<k>>,
                          UtilityType_format_section(utility(report.utilities, k)))
    /\ UNCHANGED <<time_val, report>>

\* one utility type at a time, every method id and every kind of summary
NextUtility ==
    \/ SetUtilityMethod({MethodIds[i] : i \in 1..Len(MethodIds)}, 1)
    \/ SetUtilitySummary(SummaryValues, 1)
    \/ Call_has_any_method
    \/ Call_should_display
    \/ Call_format_header
    \/ Call_UtilityType_format_section

SpecUtility == Init /\ [][NextUtility]_vars

\* --------------------------------------------------- filling the hydrovac
NotesValues == {<<>>, << <<>> >>, <<T_Dig_by_hand>>}

SetRecommended ==
    /\ Filling
    /\ \E b \in BOOLEAN : report' = [report EXCEPT !.hydrovac.recommended = b]
    /\ UNCHANGED <<time_val, call>>

SetReason ==
    /\ Filling
    /\ \E k \in ReasonKeys, b \in BOOLEAN :
         report' = [report EXCEPT
                       !.hydrovac.reasons = IF b THEN @ \cup {k} ELSE @ \ {k}]
    /\ UNCHANGED <<time_val, call>>

SetCustomNotes ==
    /\ Filling
    /\ \E v \in NotesValues : report' = [report EXCEPT !.hydrovac.custom_notes = v]
    /\ UNCHANGED <<time_val, call>>

Call_get_selected_reasons ==
    /\ call' = Returned("get_selected_reasons", <<>>,
                        HydrovacRecommendation_get_selected_reasons(report.hydrovac))
    /\ UNCHANGED <<time_val, report>>

Call_HydrovacRecommendation_format_section ==
    /\ call' = Returned("HydrovacRecommendation.format_section", <<>>,
                        HydrovacRecommendation_format_section(report.hydrovac))
    /\ UNCHANGED <<time_val, report>>

NextHydrovac ==
    \/ SetRecommended
    \/ SetReason
    \/ SetCustomNotes
    \/ Call_get_selected_reasons
    \/ Call_HydrovacRecommendation_format_section

SpecHydrovac == Init /\ [][NextHydrovac]_vars

\* ------------------------------------------- filling the report's own text
SetTravelNotes ==
    /\ Filling
    /\ \E v \in {<< <<>> >>, <<T_Rain_delay>>} : report' = [report EXCEPT !.travel_notes = v]
    /\ UNCHANGED <<time_val, call>>

SetSiteConditions ==
    /\ Filling
    /\ report' = [report EXCEPT !.site_conditions = <<T_Mud>>]
    /\ UNCHANGED <<time_val, call>>

SetRecommendations ==
    /\ Filling
    /\ report' = [report EXCEPT !.recommendations = <<T_Call_first>>]
    /\ UNCHANGED <<time_val, call>>

\* missing_docs[k] = b for a document key k of K
SetMissingDoc(K) ==
    /\ Filling
    /\ \E k \in K, b \in BOOLEAN :
         report' = [report EXCEPT !.missing_docs = IF b THEN @ \cup {k} ELSE @ \ {k}]
    /\ UNCHANGED <<time_val, call>>

Call_format_combined_report ==
    /\ call' = Returned("format_combined_report", <<>>, LocateReport_format_combined_report(report))
    /\ UNCHANGED <<time_val, report>>

\* The combined report: every section can be present or absent, with at most
\* MaxActive utility types filled in at a time.
Next ==
    \/ SetTravelNotes
    \/ SetSiteConditions
    \/ SetRecommendations
    \/ SetMissingDoc({"hydro"})
    \/ SetRecommended
    \/ SetUtilityMethod({"em"}, MaxActive)
    \/ SetUtilitySummary({<<T_Found>>}, MaxActive)
    \/ Call_format_combined_report

Spec == Init /\ [][Next]_vars

\* ------------------------------------------------------- filling the job
SetMultiDay ==
    /\ Filling
    /\ \E b \in BOOLEAN : report' = [report EXCEPT !.job.is_multi_day = b]
    /\ UNCHANGED <<time_val, call>>

AddWorkDay ==
    /\ Filling
    /\ Len(report.job.work_days) < MaxDays
    /\ report' = [report EXCEPT !.job.work_days = Append(@, WorkDay_init)]
    /\ UNCHANGED <<time_val, call>>

\* work_days[i].date: the i-th day of the month
SetDate ==
    /\ Filling
    /\ \E i \in 1..Len(report.job.work_days) :
         report' = [report EXCEPT !.job.work_days[i].date = <<i>>]
    /\ UNCHANGED <<time_val, call>>

SetStartTime ==
    /\ Filling
    /\ \E i \in 1..Len(report.job.work_days) :
         report' = [report EXCEPT !.job.work_days[i].start_time = TStr(T_0900)]
    /\ UNCHANGED <<time_val, call>>

SetEndTime ==
    /\ Filling
    /\ \E i \in 1..Len(report.job.work_days) :
         report' = [report EXCEPT !.job.work_days[i].end_time = TStr(T_1430)]
    /\ UNCHANGED <<time_val, call>>

\* at most n technicians over the whole job
AddTechnicianUpTo(n) ==
    /\ Filling
    /\ Len(all_technicians(report.job.work_days)) < n
    /\ \E i \in 1..Len(report.job.work_days) :
         report' = [report EXCEPT !.job.work_days[i].technicians = Append(@, Technician_init)]
    /\ UNCHANGED <<time_val, call>>

AddTechnician == AddTechnicianUpTo(MaxTechs)

SetName ==
    /\ Filling
    /\ \E i \in 1..Len(report.job.work_days) :
         \E j \in 1..Len(report.job.work_days[i].technicians) :
            report' = [report EXCEPT !.job.work_days[i].technicians[j].name = <<T_A>>]
    /\ UNCHANGED <<time_val, call>>

\* the hours dict with em, gpr and travel as given and the other types 0
hours_of(em, gpr, travel) ==
    [ht \in HourTypeSet |->
        CASE ht = "em" -> em [] ht = "gpr" -> gpr [] ht = "travel" -> travel
          [] OTHER -> <<0>>]

\* 1.5 h EM and 0.5 h travel; EM left blank (None); GPR 1.25 h with travel
\* None; a correction of -1.5 h EM
HourProfiles ==
    { hours_of(<<150>>, <<0>>, <<50>>),
      hours_of(<<>>, <<0>>, <<0>>),
      hours_of(<<0>>, <<125>>, <<>>),
      hours_of(<<0 - 150>>, <<0>>, <<0>>) }

SetHours ==
    /\ Filling
    /\ \E i \in 1..Len(report.job.work_days) :
         \E j \in 1..Len(report.job.work_days[i].technicians) :
            \E h \in HourProfiles :
               report' = [report EXCEPT !.job.work_days[i].technicians[j].hours = h]
    /\ UNCHANGED <<time_val, call>>

\* hours entered in tenths: 0.1 h EM; 1.1 h EM and 0.2 h GPR
TenthProfiles ==
    { hours_of(<<10>>, <<0>>, <<0>>),
      hours_of(<<110>>, <<20>>, <<0>>) }

SetHoursInTenths ==
    /\ Filling
    /\ \E i \in 1..Len(report.job.work_days) :
         \E j \in 1..Len(report.job.work_days[i].technicians) :
            \E h \in TenthProfiles :
               report' = [report EXCEPT !.job.work_days[i].technicians[j].hours = h]
    /\ UNCHANGED <<time_val, call>>

Call_format_time_on_site ==
    /\ call' = Returned("format_time_on_site", <<>>, MultiDayJob_format_time_on_site(report.job))
    /\ UNCHANGED <<time_val, report>>

Call_format_type_time ==
    /\ call' = IF MultiDayJob_format_type_time_raises(report.job)
               THEN Raised("format_type_time", <<>>)
               ELSE Returned("format_type_time", <<>>, MultiDayJob_format_type_time(report.job))
    /\ report' = [report EXCEPT !.job = MultiDayJob_after_format_type_time(@)]
    /\ UNCHANGED time_val

Call_get_all_hours_by_type ==
    /\ \E i \in 1..Len(report.job.work_days) :
         /\ call' = Returned("get_all_hours_by_type", <<i>>,
                             WorkDay_get_all_hours_by_type(report.job.work_days[i]))
         /\ report' = [report EXCEPT !.job.work_days[i] = WorkDay_after_get_all_hours_by_type(@)]
    /\ UNCHANGED time_val

Call_get_all_technicians ==
    /\ call' = Returned("get_all_technicians", <<>>, MultiDayJob_get_all_technicians(report.job))
    /\ report' = [report EXCEPT !.job = MultiDayJob_after_get_all_technicians(@)]
    /\ UNCHANGED time_val

Call_get_combined_totals ==
    /\ call' = Returned("get_combined_totals", <<>>, MultiDayJob_get_combined_totals(report.job))
    /\ report' = [report EXCEPT !.job = MultiDayJob_after_get_combined_totals(@)]
    /\ UNCHANGED time_val

Call_format_billing_details ==
    /\ call' = IF LocateReport_format_billing_details_raises(report)
               THEN Raised("format_billing_details", <<>>)
               ELSE Returned("format_billing_details", <<>>,
                             LocateReport_format_billing_details(report))
    /\ report' = [report EXCEPT !.job = MultiDayJob_after_format_type_time(@)]
    /\ UNCHANGED time_val

\* The job: days, their dates and times, technicians, names and hours.
NextJob ==
    \/ SetMultiDay
    \/ AddWorkDay
    \/ SetDate
    \/ SetStartTime
    \/ SetEndTime
    \/ AddTechnician
    \/ SetName
    \/ SetHours
    \/ Call_format_time_on_site
    \/ Call_format_type_time

SpecJob == Init /\ [][NextJob]_vars

\* ----------------------------------------- filling the billing attributes
\* supp_parking or supp_kms = '' or '40'
SetSupp ==
    /\ Filling
    /\ \E k \in {"parking", "kms"}, v \in {<<>>, T_40} :
         report' = [report EXCEPT !.supp = [x \in DOMAIN @ \cup {k} |-> IF x = k THEN v ELSE @[x]]]
    /\ UNCHANGED <<time_val, call>>

\* mat_pin_flags = '40'
SetMat ==
    /\ Filling
    /\ report' = [report EXCEPT !.mat = [x \in {"pin_flags"} |-> T_40]]
    /\ UNCHANGED <<time_val, call>>

SetPropertyType ==
    /\ Filling
    /\ \E p \in {P_Private, P_Public, P_Both} : report' = [report EXCEPT !.property_type = <<p>>]
    /\ UNCHANGED <<time_val, call>>

\* Billing details: the job together with the supplemental, material and
\* property attributes.
NextBilling ==
    \/ SetMultiDay
    \/ AddWorkDay
    \/ SetStartTime
    \/ AddTechnician
    \/ SetHours
    \/ SetSupp
    \/ SetMat
    \/ SetPropertyType
    \/ Call_format_billing_details

SpecBilling == Init /\ [][NextBilling]_vars

\* Every formatting and aggregation call, in any order, on a small tree.
NextFrame ==
    \/ SetMultiDay
    \/ AddWorkDay
    \/ AddTechnician
    \/ SetHours
    \/ SetTravelNotes
    \/ SetRecommended
    \/ Call_format_combined_report
    \/ Call_format_billing_details
    \/ Call_format_type_time
    \/ Call_format_time_on_site
    \/ Call_get_all_technicians
    \/ Call_get_combined_totals
    \/ Call_get_all_hours_by_type

SpecFrame == Init /\ [][NextFrame]_vars

\* The totals of a job: days, technicians, names and hours, then a totals call.
NextTotals ==
    \/ AddWorkDay
    \/ AddTechnicianUpTo(MaxTotalsTechs)
    \/ SetName
    \/ SetHours
    \/ SetHoursInTenths
    \/ Call_get_all_technicians
    \/ Call_get_combined_totals

SpecTotals == Init /\ [][NextTotals]_vars

\* =================================================================== claims
\* expected texts, written out independently of the model's operators
X_obstructions ==
    <<"o","b","s","t","r","u","c","t","i","o","n","s"," ","i","n"," ","s","c","a","n"," ","a",
      "r","e","a">>
X_unlocated ==
    <<"u","n","l","o","c","a","t","e","d"," ","u","t","i","l","i","t","i","e","s"," ","i","n",
      " ","a","r","e","a">>
X_deep_utilities ==
    <<"p","o","s","s","i","b","l","e"," ","u","t","i","l","i","t","i","e","s"," ","i","n"," ",
      "a","r","e","a"," ","d","e","e","p","e","r"," ","t","h","a","n"," ","t","h","e"," ","s",
      "c","a","n"," ","c","a","p","a","b","i","l","i","t","i","e","s"," ","d","u","e"," ","t",
      "o"," ","g","e","o","p","h","y","s","i","c","a","l"," ","s","u","b","s","u","r","f","a",
      "c","e"," ","c","o","n","d","i","t","i","o","n","s">>
X_no_documentation ==
    <<"n","o"," ","b","c"," ","o","n","e"," ","c","a","l","l","/","s","i","t","e"," ","p","l",
      "a","n","s","/","a","s","-","b","u","i","l","t","s"," ","f","o","r"," ","t","h","e"," ",
      "a","r","e","a">>
X_9_00_am == <<"9",":","0","0"," ","a","m">>
X_2_30_pm == <<"2",":","3","0"," ","p","m">>
X_12_00_pm == <<"1","2",":","0","0"," ","p","m">>
X_12_00_am == <<"1","2",":","0","0"," ","a","m">>

\* ----------------------------------------------------------------- C5
TimeCalled == call.op = "format_time_12hr" /\ call.outcome = "returned"

\* digits and colons only, with at least one digit
IsDigitColonString(s) ==
    /\ \A i \in 1..Len(s) : IsDigit(s[i]) \/ s[i] = ":"
    /\ \E i \in 1..Len(s) : IsDigit(s[i])

RECURSIVE Pow10(_)
Pow10(n) == IF n = 0 THEN 1 ELSE 10 * Pow10(n - 1)

RECURSIVE DecimalValue(_)
DecimalValue(d) ==
    IF d = <<>> THEN 0
    ELSE DigitVal(Head(d)) * Pow10(Len(d) - 1) + DecimalValue(Tail(d))

TwoDigits(n) == <<Digits[(n \div 10) + 1], Digits[(n % 10) + 1]>>

\* the text the claim gives for a string of digits and colons
Expected12hr(s) ==
    LET d      == SelectSeq(s, IsDigit)
        hour   == IF Len(d) <= 2 THEN DecimalValue(d) ELSE DecimalValue(d) \div 100
        minute == IF Len(d) <= 2 THEN 0 ELSE DecimalValue(d) % 100
        mm     == TwoDigits(minute)
    IN  CASE hour = 0 \/ hour = 24 -> <<"1","2",":">> \o mm \o <<" ","a","m">>
          [] hour # 0 /\ hour < 12 -> nat_str(hour) \o <<":">> \o mm \o <<" ","a","m">>
          [] hour = 12             -> <<"1","2",":">> \o mm \o <<" ","p","m">>
          [] hour > 12 /\ hour # 24 -> nat_str(hour - 12) \o <<":">> \o mm \o <<" ","p","m">>

\* C5: for every string of digits optionally containing ':', format_time_12hr
\* strips the colon, takes the whole string as the hour with minute 0 when it
\* has at most 2 digits and otherwise the last 2 digits as minutes and the rest
\* as the hour, and returns 12:MM am for hour 0 or 24, H:MM am for hour < 12,
\* 12:MM pm for hour 12 and (H-12):MM pm for hour > 12, MM zero-padded; 0900
\* gives 9:00 am, 1430 gives 2:30 pm, 1200 gives 12:00 pm, 0 gives 12:00 am,
\* and the empty string or None gives the empty string.
C5_DigitStringsFormat ==
    TimeCalled =>
        /\ (time_val.kind = "str" /\ IsDigitColonString(time_val.s))
              => call.value = Expected12hr(time_val.s)
        /\ time_val = TStr(T_0900) => call.value = X_9_00_am
        /\ time_val = TStr(T_1430) => call.value = X_2_30_pm
        /\ time_val = TStr(T_1200) => call.value = X_12_00_pm
        /\ time_val = TStr(<<"0">>) => call.value = X_12_00_am
        /\ (time_val = TStr(<<>>) \/ time_val = TNone) => call.value = <<>>

\* C5 witness: 1430 has been formatted as 2:30 pm
C5_Witness == TimeCalled /\ time_val = TStr(T_1430) /\ call.value = X_2_30_pm

\* ----------------------------------------------------------------- C6
HasLetter(s) ==
    \E i \in 1..Len(s) : \E j \in 1..26 : s[i] = UpperCase[j] \/ s[i] = LowerCase[j]

\* neither am nor pm in any casing
NoAmPm(s) ==
    \A i \in 1..(Len(s) - 1) :
        ~(s[i] \in {"a", "A", "p", "P"} /\ s[i + 1] \in {"m", "M"})

\* C6: for every non-empty time string that cannot be parsed as digits (here:
\* one that holds a letter) and does not contain am/pm, format_time_12hr
\* returns the original input string unmodified, character for character
\* including its casing and surrounding whitespace.
C6_UnparseableReturnedUnchanged ==
    (TimeCalled /\ time_val.kind = "str" /\ HasLetter(time_val.s) /\ NoAmPm(time_val.s))
        => call.value = time_val.s

\* ----------------------------------------------------------------- C7
NoAvailableMethodSelected(u) ==
    u.methods \cap {u.available_methods[i] : i \in 1..Len(u.available_methods)} = {}

SummaryEmptyOrAbsent(u) == u.summary = <<>> \/ u.summary = << <<>> >>

\* the utility with every method id outside available_methods switched off
OnlyAvailableMethods(u) ==
    [u EXCEPT !.methods =
        {m \in u.methods : \E i \in 1..Len(u.available_methods) : u.available_methods[i] = m}]

\* C7: for every UtilityType, should_display() is false and format_section()
\* is the empty string exactly when no method id in available_methods is
\* selected and the summary is empty or absent; method ids outside
\* available_methods are ignored even if set to true (em or gpr set on ditch
\* neither makes the section display nor adds a label to the header).
C7_DisplayIffMethodOrSummary ==
    call.outcome = "returned" =>
        LET u     == utility(report.utilities, call.arg[1])
            blank == NoAvailableMethodSelected(u) /\ SummaryEmptyOrAbsent(u)
        IN  /\ call.op = "should_display" => (call.value = FALSE <=> blank)
            /\ call.op = "UtilityType.format_section" => (call.value = <<>> <=> blank)
            /\ call.op = "format_header" =>
                  call.value = UtilityType_format_header(OnlyAvailableMethods(u))
            /\ (call.op = "format_header" /\ NoAvailableMethodSelected(u))
                  => call.value = upper(u.display_name)

\* C7 witness: format_section was called on ditch with em and gpr selected and
\* nothing else, and returned the empty string
C7_Witness ==
    /\ call.op = "UtilityType.format_section" /\ call.arg = <<"ditch">>
    /\ report.utilities["ditch"].methods = {"em", "gpr"}
    /\ call.value = <<>>

\* ----------------------------------------------------------------- C8
SelectedReasonCount == Cardinality(report.hydrovac.reasons)

\* the lowercase texts of the selected reasons, in the fixed order
ExpectedReasons ==
    (IF "obstructions" \in report.hydrovac.reasons THEN <<X_obstructions>> ELSE <<>>)
    \o (IF "unlocated" \in report.hydrovac.reasons THEN <<X_unlocated>> ELSE <<>>)
    \o (IF "deep_utilities" \in report.hydrovac.reasons THEN <<X_deep_utilities>> ELSE <<>>)
    \o (IF "no_documentation" \in report.hydrovac.reasons THEN <<X_no_documentation>> ELSE <<>>)

\* A / A and B / A, B, and C / A, B, C, and D
ExpectedOxford(x) ==
    CASE Len(x) = 1 -> x[1]
      [] Len(x) = 2 -> x[1] \o <<" ","a","n","d"," ">> \o x[2]
      [] Len(x) = 3 -> x[1] \o <<",", " ">> \o x[2] \o <<",", " ","a","n","d"," ">> \o x[3]
      [] Len(x) = 4 -> x[1] \o <<",", " ">> \o x[2] \o <<",", " ">> \o x[3]
                       \o <<",", " ","a","n","d"," ">> \o x[4]

ExpectedHydrovacSection ==
    LET h == report.hydrovac
    IN  IF ~h.recommended THEN <<>>
        ELSE S_hydrovac_header
             \o (IF ExpectedReasons = <<>> THEN S_hydrovac_plain
                 ELSE S_hydrovac_due_to \o ExpectedOxford(ExpectedReasons) \o <<".">>)
             \o (IF h.custom_notes # <<>> /\ h.custom_notes # << <<>> >>
                 THEN <<CR>> \o h.custom_notes[1] ELSE <<>>)

HydrovacCalled ==
    call.op = "HydrovacRecommendation.format_section" /\ call.outcome = "returned"

\* C8: HydrovacRecommendation.format_section returns the empty string unless
\* recommended is true; when recommended it returns the header line followed
\* by the due-to sentence with the Oxford join of the lowercase texts of the
\* selected reasons in the fixed order, or by the plain sentence when no
\* reason is selected, followed by CR and custom_notes exactly when
\* custom_notes is non-empty.
C8_HydrovacSection ==
    HydrovacCalled =>
        /\ call.value = ExpectedHydrovacSection
        /\ (report.hydrovac.recommended /\ SelectedReasonCount = 0
            /\ ~truthy(report.hydrovac.custom_notes))
              => call.value = T_hydrovac_plain_result

\* C8 witness: a recommended hydrovac with three reasons and a custom note
\* has been formatted
C8_Witness ==
    /\ HydrovacCalled /\ report.hydrovac.recommended
    /\ SelectedReasonCount = 3
    /\ report.hydrovac.custom_notes = <<T_Dig_by_hand>>
    /\ call.value # <<>>

\* ---- C1 ------------------------------------------------------------------
starts_with(s, p) == Len(s) >= Len(p) /\ SubSeq(s, 1, Len(p)) = p

BillingReturned == call.op = "format_billing_details" /\ call.outcome = "returned"

BillingHeaders ==
    <<S_TIME_ON_SITE, S_TYPE_TIME, S_SUPPLEMENTAL, S_MATERIALS, S_PROPERTY_TYPE>>

\* the content of the i-th billing section for the report as it stands
BillingContent(i) ==
    CASE i = 1 -> MultiDayJob_format_time_on_site(report.job)
      [] i = 2 -> MultiDayJob_format_type_time(report.job)
      [] i = 3 -> LocateReport_format_supplemental(report)
      [] i = 4 -> LocateReport_format_materials(report)
      [] i = 5 -> LocateReport_format_property_type(report)

\* the lines of the output that begin with the i-th header and its colon
HeaderLines(i) ==
    LET out == split(call.value, CR)
    IN  {n \in 1..Len(out) : starts_with(out[n], BillingHeaders[i] \o <<":">>)}

\* C1: in every output of format_billing_details, a section whose content is
\* empty has no header line, and a section whose content is not empty has
\* exactly one line that carries its header, with non-empty content after the
\* padded header (so no empty line stands in place of a header line).
C1_SectionsOmittedOrFilled ==
    BillingReturned =>
        \A i \in 1..Len(BillingHeaders) :
            /\ BillingContent(i) = <<>> => HeaderLines(i) = {}
            /\ BillingContent(i) # <<>> =>
                 /\ Cardinality(HeaderLines(i)) = 1
                 /\ \A n \in HeaderLines(i) : Len(split(call.value, CR)[n]) > HEADER_WIDTH

\* ---- C3 ------------------------------------------------------------------
\* C3: no formatting call ends in an error, whatever optional field is absent
\* or null.
C3_FormattingNeverRaises == call.outcome # "raised"

\* ---- C2 ------------------------------------------------------------------
CombinedCalled == call.op = "format_combined_report"

UtilityOrder ==
    <<"electrical", "communications", "gas", "water", "storm", "sanitary", "ditch", "unknown">>

\* every candidate section in the fixed order, empty where it has no content
CandidateSections ==
    << IF truthy(report.travel_notes) THEN S_travel_notes \o report.travel_notes[1] ELSE <<>>,
       IF truthy(report.site_conditions)
       THEN S_site_conditions \o report.site_conditions[1] ELSE <<>> >>
    \o [i \in 1..Len(UtilityOrder) |->
           UtilityType_format_section(utility(report.utilities, UtilityOrder[i]))]
    \o << HydrovacRecommendation_format_section(report.hydrovac),
          LocateReport_format_recommendations(report) >>

\* the non-empty sections with "\r\r" between each two of them
RECURSIVE JoinNonEmpty(_)
JoinNonEmpty(secs) ==
    IF secs = <<>> THEN <<>>
    ELSE LET rest == JoinNonEmpty(Tail(secs))
         IN  IF Head(secs) = <<>> THEN rest
             ELSE IF rest = <<>> THEN Head(secs)
             ELSE Head(secs) \o <<CR, CR>> \o rest

OnlyRainDelay == report = [LocateReport_init EXCEPT !.travel_notes = <<T_Rain_delay>>]

\* C2: format_combined_report returns exactly the non-empty sections among
\* travel notes, site conditions, the utility sections in the fixed order, the
\* hydrovac recommendation and the recommendations, joined by "\r\r"; with only
\* travel_notes = "Rain delay" it is "TRAVEL NOTES:\rRain delay", with nothing
\* set it is the empty string.
C2_CombinedReport ==
    CombinedCalled =>
        /\ call.outcome = "returned"
        /\ call.value = JoinNonEmpty(CandidateSections)
        /\ OnlyRainDelay => call.value = T_travel_result
        /\ report = LocateReport_init => call.value = <<>>

\* travel notes, two utility sections and the hydrovac section present, site
\* conditions and recommendations absent
C2_Witness ==
    /\ CombinedCalled
    /\ truthy(report.travel_notes)
    /\ report.site_conditions = <<>>
    /\ UtilityType_format_section(utility(report.utilities, "gas")) # <<>>
    /\ UtilityType_format_section(utility(report.utilities, "ditch")) # <<>>
    /\ report.hydrovac.recommended
    /\ LocateReport_format_recommendations(report) = <<>>

\* ---- C4 ------------------------------------------------------------------
\* the job cut down to its first work day
first_day_only(job) == [work_days |-> <<job.work_days[1]>>, is_multi_day |-> FALSE]

\* C4: when is_multi_day is false or there is at most one work day,
\* format_time_on_site is the time range of work_days[0] and format_type_time
\* is what it is for the job cut down to work_days[0] (the same value or the
\* same error), so neither depends on any further work day; with no work day
\* both are the empty string.
C4_SingleDayPath ==
    (~report.job.is_multi_day \/ Len(report.job.work_days) <= 1) =>
        /\ call.op = "format_time_on_site" =>
             call = Returned("format_time_on_site", <<>>,
                             IF report.job.work_days = <<>> THEN <<>>
                             ELSE WorkDay_format_time_range(report.job.work_days[1]))
        /\ (call.op = "format_type_time" /\ report.job.work_days = <<>>) =>
             call = Returned("format_type_time", <<>>, <<>>)
        /\ (call.op = "format_type_time" /\ report.job.work_days # <<>>) =>
             call = IF MultiDayJob_format_type_time_raises(first_day_only(report.job))
                    THEN Raised("format_type_time", <<>>)
                    ELSE Returned("format_type_time", <<>>,
                                  MultiDayJob_format_type_time(first_day_only(report.job)))

\* two work days with is_multi_day false, technicians with hours on both
C4_Witness ==
    /\ call.op = "format_type_time"
    /\ call.outcome = "returned"
    /\ ~report.job.is_multi_day
    /\ Len(report.job.work_days) = 2
    /\ \A i \in 1..2 : tech_lines(report.job.work_days[i].technicians) # <<>>

TypeTimeCalled == call.op = "format_type_time"

MultiDayPath == report.job.is_multi_day /\ Len(report.job.work_days) >= 2

JobTechnicians == all_technicians(report.job.work_days)

\* the technician has an hour value > 0
HasHours(tech) == \E ht \in HourTypeSet : tech.hours[ht] # <<>> /\ tech.hours[ht][1] > 0

\* in the order of HOUR_TYPES, a null hour value comes before any value > 0
NullBeforePositive(tech) ==
    \E i \in 1..Len(HOUR_TYPES) :
        /\ tech.hours[HOUR_TYPES[i]] = <<>>
        /\ \A j \in 1..(i - 1) :
              tech.hours[HOUR_TYPES[j]] # <<>> /\ tech.hours[HOUR_TYPES[j]][1] <= 0

\* "Day (date): tech | tech" for the technicians of the day that have hours
DayLine(day) ==
    S_Day_open \o date_str(day) \o S_Day_close
    \o join(S_bar, select_map(day.technicians, HasHours, Technician_format_tech_line))

ExpectedDayLines ==
    select_map(report.job.work_days,
               LAMBDA day : \E j \in 1..Len(day.technicians) : HasHours(day.technicians[j]),
               DayLine)

\* the distinct names of techs, each at its first appearance
RECURSIVE DistinctNames(_, _)
DistinctNames(techs, seen) ==
    IF techs = <<>> THEN <<>>
    ELSE LET n == IF Head(techs).name = <<>> THEN S_Unknown ELSE Head(techs).name[1]
         IN  IF n \in seen THEN DistinctNames(Tail(techs), seen)
             ELSE <<n>> \o DistinctNames(Tail(techs), seen \cup {n})

\* the hours of type ht over the technicians picked by keep, null counted as 0
RECURSIVE SumHours(_, _, _)
SumHours(techs, keep(_), ht) ==
    IF techs = <<>> THEN 0
    ELSE (IF keep(Head(techs)) /\ Head(techs).hours[ht] # <<>>
          THEN Head(techs).hours[ht][1] ELSE 0)
         + SumHours(Tail(techs), keep, ht)

NameTotals(n) ==
    [ht \in HourTypeSet |->
        SumHours(JobTechnicians,
                 LAMBDA t : (IF t.name = <<>> THEN S_Unknown ELSE t.name[1]) = n, ht)]

GrandTotals == [ht \in HourTypeSet |-> SumHours(JobTechnicians, LAMBDA t : TRUE, ht)]

AnyPositive(totals) == \E ht \in HourTypeSet : totals[ht] > 0

\* the totals line of exact totals given in hundredths
TotalsText(totals) == format_totals_line([ht \in HourTypeSet |-> float_of(totals[ht])])

NameLine(n) == <<" ", " ">> \o n \o <<":", " ">> \o TotalsText(NameTotals(n))

\* the text as the claim states it: a line for every distinct name, then the
\* Combined line
ExpectedTypeTimeEveryName ==
    join(<<CR>>,
         ExpectedDayLines \o << <<>>, S_TOTALS >>
         \o select_map(DistinctNames(JobTechnicians, {}), LAMBDA n : TRUE, NameLine)
         \o <<S_Combined \o TotalsText(GrandTotals)>>)

\* the text with a line only for a name whose summed totals have a type > 0,
\* and the Combined line only when the grand total has a type > 0
ExpectedTypeTimePositiveOnly ==
    join(<<CR>>,
         ExpectedDayLines \o << <<>>, S_TOTALS >>
         \o select_map(DistinctNames(JobTechnicians, {}),
                       LAMBDA n : AnyPositive(NameTotals(n)), NameLine)
         \o (IF AnyPositive(GrandTotals)
             THEN <<S_Combined \o TotalsText(GrandTotals)>> ELSE <<>>))

\* C10 as stated: on the multi-day path with at least one technician, a
\* format_type_time that returns gives the Day lines, a blank line, "TOTALS:",
\* one indented line for every distinct technician name, then the Combined line.
C10_LineForEveryName ==
    (TypeTimeCalled /\ MultiDayPath /\ JobTechnicians # <<>> /\ call.outcome = "returned")
        => call.value = ExpectedTypeTimeEveryName

\* C10 amended: on the multi-day path with at least one technician,
\* format_type_time ends in an error exactly when some technician has a null
\* hour value before any value > 0; otherwise it returns the Day lines (days
\* without technician hours skipped), a blank line, "TOTALS:", one indented
\* line for each distinct name whose summed totals have a type > 0, and the
\* Combined line only if the grand total has a type > 0.
C10_LineForNamesWithTotals ==
    (TypeTimeCalled /\ MultiDayPath /\ JobTechnicians # <<>>) =>
        IF \E i \in 1..Len(JobTechnicians) : NullBeforePositive(JobTechnicians[i])
        THEN call.outcome = "raised"
        ELSE call.outcome = "returned" /\ call.value = ExpectedTypeTimePositiveOnly

\* two days with technician hours, a named and an unnamed technician
C10_Witness ==
    /\ TypeTimeCalled /\ MultiDayPath /\ call.outcome = "returned"
    /\ Len(ExpectedDayLines) = 2
    /\ Len(DistinctNames(JobTechnicians, {})) = 2

\* ---- C11 -----------------------------------------------------------------
SingleDayPath == ~report.job.is_multi_day \/ Len(report.job.work_days) <= 1

FirstDayTechnicians ==
    IF report.job.work_days = <<>> THEN <<>> ELSE report.job.work_days[1].technicians

\* one line per technician of the first day with an hour value > 0, then
\* "Total: ..." over the whole day when at least two of them have hours
ExpectedSingleDayLines ==
    select_map(FirstDayTechnicians, HasHours, Technician_format_tech_line)
    \o (IF Len(SelectSeq(FirstDayTechnicians, HasHours)) >= 2
        THEN <<S_Total \o TotalsText(
                  [ht \in HourTypeSet |-> SumHours(FirstDayTechnicians, LAMBDA t : TRUE, ht)])>>
        ELSE <<>>)

\* C11: on the single-day path format_type_time returns one line for each
\* technician of work_days[0] that has an hour value > 0, in list order, and
\* a final "Total: ..." line exactly when at least two of them have hours;
\* technicians without hours give no line and do not count.
C11_SingleDayLines ==
    (TypeTimeCalled /\ SingleDayPath) =>
        call.outcome = "returned" /\ call.value = join(<<CR>>, ExpectedSingleDayLines)

\* ---- C12 -----------------------------------------------------------------
\* the i-th header and its colon, padded with spaces to HEADER_WIDTH characters
PaddedHeader(i) ==
    BillingHeaders[i] \o <<":">>
    \o [k \in 1..(HEADER_WIDTH - Len(BillingHeaders[i]) - 1) |-> " "]

\* i when the line is the i-th padded header followed by content, else 0
HeaderOf(line) ==
    IF \E i \in 1..Len(BillingHeaders) :
          Len(line) > HEADER_WIDTH /\ SubSeq(line, 1, HEADER_WIDTH) = PaddedHeader(i)
    THEN CHOOSE i \in 1..Len(BillingHeaders) : SubSeq(line, 1, HEADER_WIDTH) = PaddedHeader(i)
    ELSE 0

\* HEADER_WIDTH spaces and then the content; a blank line has no content
IsContinuation(line) ==
    line = <<>> \/ (Len(line) > HEADER_WIDTH /\ \A k \in 1..HEADER_WIDTH : line[k] = " ")

\* C12: in every output of format_billing_details each line is either a
\* header line (header, ':', spaces up to 18 characters, then the content) or
\* a further TYPE/TIME line (18 spaces, then the content) that follows the
\* TYPE/TIME header line with no other header in between; the headers appear
\* at most once each and in the fixed order.
C12_HeadersOrderedAndAligned ==
    (BillingReturned /\ call.value # <<>>) =>
        LET out == split(call.value, CR)
        IN  /\ \A n \in 1..Len(out) :
                 \/ HeaderOf(out[n]) # 0
                 \/ /\ IsContinuation(out[n])
                    /\ \E m \in 1..(n - 1) :
                          /\ HeaderOf(out[m]) = 2
                          /\ \A k \in (m + 1)..(n - 1) : HeaderOf(out[k]) = 0
            /\ \A m, n \in 1..Len(out) :
                 (m < n /\ HeaderOf(out[m]) # 0 /\ HeaderOf(out[n]) # 0)
                    => HeaderOf(out[m]) < HeaderOf(out[n])

\* ---- C13 -----------------------------------------------------------------
TotalsCalled == call.op \in {"get_combined_totals", "get_all_technicians"}

\* what get_combined_totals gives for the job: the value of the call when it
\* is the one made
CombinedTotals ==
    IF call.op = "get_combined_totals" THEN call.value
    ELSE MultiDayJob_get_combined_totals(report.job)

\* what get_all_technicians gives for the job, likewise
TotalsByName ==
    IF call.op = "get_all_technicians" THEN call.value
    ELSE MultiDayJob_get_all_technicians(report.job)

\* the float sum, in order, of the floats f(1), ..., f(n) taken from i on
RECURSIVE FloatSumFrom(_, _, _)
FloatSumFrom(f, i, total) ==
    IF i > Len(f) THEN total ELSE FloatSumFrom(f, i + 1, float_add(total, f[i]))

\* sum over all names of that name's summed hours of type ht
SumOverNames(ht) ==
    FloatSumFrom([i \in 1..Len(TotalsByName) |-> TotalsByName[i].hours[ht]], 1, float_zero)

\* sum over all technicians of all days of the hour value of type ht, null
\* counted as 0
SumOverTechnicians(ht) ==
    FloatSumFrom([i \in 1..Len(JobTechnicians) |-> float_or_0(JobTechnicians[i].hours[ht])],
                 1, float_zero)

\* every hour value of the job is a whole number of quarter hours (or null)
QuarterHours ==
    \A i \in 1..Len(JobTechnicians) : \A ht \in HourTypeSet :
        JobTechnicians[i].hours[ht] # <<>> => JobTechnicians[i].hours[ht][1] % 25 = 0

NamesAreDistinct ==
    \A i, j \in 1..Len(TotalsByName) : TotalsByName[i].name = TotalsByName[j].name => i = j

\* hour values as the data model has them: non-negative, or null
NonNegativeHours ==
    \A i \in 1..Len(JobTechnicians) : \A ht \in HourTypeSet :
        JobTechnicians[i].hours[ht] # <<>> => JobTechnicians[i].hours[ht][1] >= 0

\* C13 as stated: for each hour type the value in get_combined_totals() equals
\* the sum over all names in get_all_technicians() of that name's summed
\* hours, and equals the sum over all technicians of all days of that hour
\* value (null counted as 0).
C13_TotalsEqual ==
    (TotalsCalled /\ NonNegativeHours) =>
        \A ht \in HourTypeSet :
            /\ CombinedTotals[ht] = SumOverNames(ht)
            /\ CombinedTotals[ht] = SumOverTechnicians(ht)

\* C13 amended: get_all_technicians() has one entry per distinct name, and for
\* each hour type the value in get_combined_totals(), the sum over all names
\* and the sum over all technicians (null counted as 0) agree up to the
\* rounding of float addition: rounded to hundredths, each is the exact sum
\* of the hour values, and the three are equal as floats when every hour
\* value is a whole number of quarter hours.
C13_TotalsEqualUpToRounding ==
    TotalsCalled =>
        /\ NamesAreDistinct
        /\ \A ht \in HourTypeSet :
              /\ round_times_100(CombinedTotals[ht]) = GrandTotals[ht]
              /\ round_times_100(SumOverNames(ht)) = GrandTotals[ht]
              /\ round_times_100(SumOverTechnicians(ht)) = GrandTotals[ht]
              /\ QuarterHours =>
                    /\ CombinedTotals[ht] = float_of(GrandTotals[ht])
                    /\ SumOverNames(ht) = float_of(GrandTotals[ht])
                    /\ SumOverTechnicians(ht) = float_of(GrandTotals[ht])

\* two technicians share a name on different days, a third has no name, an
\* hour value is null, and hours were entered in tenths
C13_Witness ==
    /\ call.op = "get_combined_totals"
    /\ Len(report.job.work_days) = 2
    /\ \E i \in 1..Len(report.job.work_days[1].technicians) :
       \E j \in 1..Len(report.job.work_days[2].technicians) :
          /\ report.job.work_days[1].technicians[i].name = <<T_A>>
          /\ report.job.work_days[2].technicians[j].name = <<T_A>>
    /\ \E i \in 1..Len(JobTechnicians) : JobTechnicians[i].name = <<>>
    /\ \E i \in 1..Len(JobTechnicians) : JobTechnicians[i].hours["em"] = <<>>
    /\ ~QuarterHours
    /\ GrandTotals["em"] > 0

=============================================================================
